---------------------------- MODULE Spec2Model ----------------------------
(***************************************************************************)
(* A model of chompact, a proof-of-concept C++ garbage collector.          *)
(*                                                                         *)
(*   src/chompact.cpp   the paged heap (DataPage), the indirection table   *)
(*                      (IndirectPointerPage), Handle / Member, the        *)
(*                      per-type ObjectInfo registry and Heap::collect.    *)
(*   src/chompact2.cpp  the DynamicWrapper variant of the registry.        *)
(*                                                                         *)
(* Platform: LP64 (sizeof(uintptr_t) = 8, int and unsigned are 32 bits,    *)
(* little endian), assertions compiled in.  Memory is modelled word by     *)
(* word: a machine word is the set of the positions of its 1 bits, so that *)
(* 64-bit values, truncation to `unsigned` and the bitmap are exact.       *)
(* An access outside the mapped pages is a fault that ends the run.        *)
(***************************************************************************)
EXTENDS Integers, Sequences, FiniteSets, TLC

(***************************************************************************)
(* Program constants.                                                      *)
(***************************************************************************)
PageSize == 4096

ObjectSize == 16

WordBytes == 8

IntBits == 32

\* DataPage::Size = ((PageSize - sizeof(Heap*)) * 8) / (ObjectSize * 8 + 1)
DataPage_Size == ((PageSize - WordBytes) * 8) \div (ObjectSize * 8 + 1)

\* DataPage::BitsPerWord = sizeof(uintptr_t) * 8
BitsPerWord == WordBytes * 8

\* #define DIVU(N, D) (N + D - 1) / (D)
DIVU(N, D) == (N + D - 1) \div D

\* uintptr_t m_marked[DIVU(Size, BitsPerWord)]
MarkedWords == DIVU(DataPage_Size, BitsPerWord)

\* Byte offsets of the members of DataPage: m_data, m_marked, m_heap.
OffMarked == DataPage_Size * ObjectSize

OffHeap == OffMarked + MarkedWords * WordBytes

\* sizeof(IndirectPointerBase): the union of a 64-bit bit-field pair and an
\* unsigned; IndirectPointerPage::Size = PageSize / sizeof(..) - 2 * sizeof(size_t)
IndirectPointerSize == WordBytes

IndirectPointerPage_Size == PageSize \div IndirectPointerSize - 2 * WordBytes

\* Byte offsets of the members of IndirectPointerPage.
OffBegin == 0

OffFreeList == WordBytes

OffHandles == 2 * WordBytes

\* Collected<List>: vptr, then List instance { int data; Member next; }.
OffInstance == WordBytes

OffListData == 0

OffListNext == WordBytes

SizeofCollectedList == OffInstance + OffListNext + WordBytes

(***************************************************************************)
(* Machine words as sets of bit positions.                                 *)
(***************************************************************************)
Bits == 0 .. (BitsPerWord - 1)

LowBits == 0 .. (IntBits - 1)

PageOffBits == 0 .. 11

NULL == {}

\* The word holding the natural number n (n < 2^31).
RECURSIVE BitsFrom(_, _)
BitsFrom(n, b) ==
    IF n = 0 THEN {}
    ELSE (IF n % 2 = 1 THEN {b} ELSE {}) \cup BitsFrom(n \div 2, b + 1)

BitsOf(n) == BitsFrom(n, 0)

Bit(S, b) == IF b \in S THEN 1 ELSE 0

\* Byte k of the word S, as a number.
Byte(S, k) ==
    Bit(S, 8 * k) + 2 * Bit(S, 8 * k + 1) + 4 * Bit(S, 8 * k + 2)
    + 8 * Bit(S, 8 * k + 3) + 16 * Bit(S, 8 * k + 4) + 32 * Bit(S, 8 * k + 5)
    + 64 * Bit(S, 8 * k + 6) + 128 * Bit(S, 8 * k + 7)

\* The number a word holds, for words below 2^31.
ValOf(S) ==
    Byte(S, 0) + 256 * Byte(S, 1) + 65536 * Byte(S, 2) + 16777216 * Byte(S, 3)

\* The carry into bit b of A + B, for U the bits in A or B and G the bits in
\* both: some lower bit generates a carry and every bit between passes it on.
Carry(U, G, b) == \E j \in G : j < b /\ ((j + 1) .. (b - 1)) \subseteq U

\* The first bit above j that does not pass a carry on.
CarryStop(U, j) ==
    CHOOSE k \in (j + 1) .. BitsPerWord : k \notin U /\ ((j + 1) .. (k - 1)) \subseteq U

\* The sum when exactly bit j is in both words: bit j becomes 0 and the carry
\* runs up to the first bit in neither.
RippleFrom(U, j) == ((U \ (j .. (CarryStop(U, j) - 1))) \cup {CarryStop(U, j)}) \cap Bits

\* A + B modulo 2^64: no carry arises where no bit is in both.
Add64(A, B) ==
    IF A \cap B = {} THEN A \cup B
    ELSE IF Cardinality(A \cap B) = 1 THEN RippleFrom(A \cup B, CHOOSE j \in A \cap B : TRUE)
    ELSE { b \in Bits : (b \in A) # ((b \in B) # Carry(A \cup B, A \cap B, b)) }

Neg64(A) == Add64(Bits \ A, {0})

Sub64(A, B) == Add64(A, Neg64(B))

\* p + d for a byte offset d >= 0.
AddOff(p, d) ==
    IF p \cap PageOffBits = {} /\ d < PageSize THEN p \cup BitsOf(d)
    ELSE Add64(p, BitsOf(d))

\* 2^(8k) % m, for m < 2^15.
RECURSIVE Pow256Mod(_, _)
Pow256Mod(k, m) == IF k = 0 THEN 1 % m ELSE (256 * Pow256Mod(k - 1, m)) % m

\* (uintptr_t) p % m, byte by byte.
Mod64(p, m) ==
    ( Byte(p, 0) * Pow256Mod(0, m) + Byte(p, 1) * Pow256Mod(1, m)
      + Byte(p, 2) * Pow256Mod(2, m) + Byte(p, 3) * Pow256Mod(3, m)
      + Byte(p, 4) * Pow256Mod(4, m) + Byte(p, 5) * Pow256Mod(5, m)
      + Byte(p, 6) * Pow256Mod(6, m) + Byte(p, 7) * Pow256Mod(7, m) ) % m

\* (unsigned) p : the low 32 bits.
Trunc32(p) == p \cap LowBits


(***************************************************************************)
(* Bounds of the model.                                                    *)
(***************************************************************************)
\* Number of Handle<List> locals of the driver.
NumHandles == 2

\* Number of Collected<List>* locals of the driver.
NumPtrs == 1

\* Largest value the driver stores in List::data.
MaxData == 1

\* Number of driver operations in one run.
MaxSteps == 4

(***************************************************************************)
(* State.                                                                  *)
(***************************************************************************)
VARIABLES
    plat,       \* the build and the address-space layout of this run
    mapped,     \* base addresses of the mapped pages
    mem,        \* memory: word address -> word, zero words left out
    fault,      \* "none", or why the process stopped
    m_marking,                      \* Heap::m_marking, top of stack last
    m_dataPages,                    \* Heap::m_dataPages
    m_nextFreeDataPage,             \* Heap::m_nextFreeDataPage
    m_nextFreeObject,               \* Heap::m_nextFreeObject
    m_indirectPointerPages,         \* Heap::m_indirectPointerPages
    m_nextFreeIndirectPointerPage,  \* Heap::m_nextFreeIndirectPointerPage
    info,       \* Collected<List>::info, the ObjectInfo<List> registry
    handles,    \* the driver's Handle<List> locals: their m_iptr
    ptrs,       \* the driver's Collected<List>* locals
    steps,      \* driver operations run so far
    last,       \* the last driver operation and what it returned
    allocLog,   \* what allocateObject returned since the last collect()
    objects,    \* addresses of the Collected<List> objects, in construction order
    dynInfo,    \* chompact2.cpp: DynamicObjectInfo<List::IdType>::info
    dynLog      \* chompact2.cpp: the Dyn(List) instances constructed, in order

heapVars == <<mapped, mem, fault, m_marking, m_dataPages, m_nextFreeDataPage,
              m_nextFreeObject, m_indirectPointerPages,
              m_nextFreeIndirectPointerPage, info>>

driverVars == <<handles, ptrs, steps, last, allocLog, objects>>

\* The set of objects constructed so far.
Objects == { objects[i] : i \in DOMAIN objects }

dynVars == <<dynInfo, dynLog>>

vars == <<plat, heapVars, driverVars, dynVars>>

(***************************************************************************)
(* The runs considered: how `1 << n` behaves for n >= 32 (undefined: the   *)
(* count is taken modulo 32, or the result is 0), where mmap() puts the    *)
(* pages (below or above 4 GiB) and whether page 0 is mapped.              *)
(***************************************************************************)
Platforms == [ wrap : BOOLEAN, high : BOOLEAN, zp : BOOLEAN ]

HighPart == {44, 45, 46}

\* What the two mmap() calls of Heap::Heap return.
MmapDataPage(pl) == {13, 21} \cup (IF pl.high THEN HighPart ELSE {})

MmapIndirectPointerPage(pl) == {12, 21} \cup (IF pl.high THEN HighPart ELSE {})

\* &heap, a local of main.
HeapAddr == HighPart \cup {5, 9, 11, 35}

\* The vtable of Collected<List>.
VTable == {4, 13, 22}

\* A value that is none of the program's: what a function that flows off its
\* end hands back.
Indeterminate == {63}

(***************************************************************************)
(* Memory.                                                                 *)
(***************************************************************************)
PageBase(a) == a \ PageOffBits

\* The word an address lies in: the address with its low three bits cleared.
Key(a) == a \ {0, 1, 2}

Cell(mm, k) == IF k \in DOMAIN mm THEN mm[k] ELSE {}

Put(mm, k, v) ==
    IF v # {} THEN (k :> v) @@ mm
    ELSE IF k \in DOMAIN mm THEN [ c \in (DOMAIN mm) \ {k} |-> mm[c] ]
    ELSE mm

\* The program state the operations work on.
Machine == [ mapped |-> mapped, mem |-> mem, fault |-> fault,
             m_marking |-> m_marking,
             m_dataPages |-> m_dataPages,
             m_nextFreeDataPage |-> m_nextFreeDataPage,
             m_nextFreeObject |-> m_nextFreeObject,
             m_indirectPointerPages |-> m_indirectPointerPages,
             m_nextFreeIndirectPointerPage |-> m_nextFreeIndirectPointerPage,
             info |-> info ]

Ok(M) == M.fault = "none"

Fault(M, why) == IF Ok(M) THEN [M EXCEPT !.fault = why] ELSE M

\* The n bytes at a are mapped (n <= WordBytes).
IsMappedN(M, a, n) ==
    /\ PageBase(a) \in M.mapped
    /\ a \cap {0, 1, 2} = {} \/ PageBase(Add64(a, BitsOf(n - 1))) \in M.mapped

IsMapped(M, a) == IsMappedN(M, a, WordBytes)

\* The two words around a as one little-endian 128-bit value.
Pair(mm, a) ==
    Cell(mm, Key(a)) \cup
    { b + BitsPerWord : b \in Cell(mm, Key(Add64(a, BitsOf(WordBytes)))) }

ByteShift(a) == 8 * ValOf(a \cap {0, 1, 2})

\* The nbits-wide little-endian value at a.
\* The bits o .. o + nbits - 1 of `both`, moved down to bit 0.
Field(both, o, nbits) == { b - o : b \in { x \in both : x >= o /\ x < o + nbits } }

LoadN(M, a, nbits) ==
    IF a \cap {0, 1, 2} = {} THEN Cell(M.mem, a) \cap (0 .. (nbits - 1))
    ELSE Field(Pair(M.mem, a), ByteShift(a), nbits)

Load(M, a) == LoadN(M, a, BitsPerWord)

\* The two words (one if `two` is false) of `both` written at keys k and k2.
PutPair(mm, k, k2, both, two) ==
    IF two THEN Put(Put(mm, k, both \cap Bits), k2,
                    { b - BitsPerWord : b \in both \ Bits })
    ELSE Put(mm, k, both \cap Bits)

\* The nbits-wide value v written at a, a at bit o of its word.
Poke(mm, a, o, v, nbits) ==
    IF o = 0 THEN Put(mm, a, (Cell(mm, a) \ (0 .. (nbits - 1))) \cup v)
    ELSE PutPair(mm, Key(a), Key(Add64(a, BitsOf(WordBytes))),
                 (Pair(mm, a) \ (o .. (o + nbits - 1))) \cup { b + o : b \in v },
                 o + nbits > BitsPerWord)

StoreN(M, a, v, nbits) ==
    IF ~Ok(M) THEN M
    ELSE IF ~IsMappedN(M, a, nbits \div 8) THEN Fault(M, "segv")
    ELSE [M EXCEPT !.mem = Poke(@, a, ByteShift(a), v \cap (0 .. (nbits - 1)), nbits)]

Store(M, a, v) == StoreN(M, a, v, BitsPerWord)

\* Store of an unsigned or an int.
Store32(M, a, v) == StoreN(M, a, v, IntBits)

\* memset(a, 0, n)
RECURSIVE Memset0(_, _, _)
Memset0(M, a, n) ==
    IF n <= 0 \/ ~Ok(M) THEN M
    ELSE IF ~IsMapped(M, a) THEN Fault(M, "segv")
    ELSE IF n >= WordBytes THEN Memset0(Store(M, a, {}), AddOff(a, WordBytes), n - WordBytes)
    ELSE Store(M, a, Load(M, a) \ (0 .. (8 * n - 1)))

\* mmap(0, PageSize, ..., MAP_PRIVATE | MAP_ANONYMOUS, -1, 0): a zeroed page.
Mmap(M, base) == [M EXCEPT !.mapped = @ \cup {base}]

(***************************************************************************)
(* DataPage.                                                               *)
(***************************************************************************)
\* 1 << s, an int, converted to uintptr_t.  For s >= 32 the shift is
\* undefined: the count is taken modulo 32 (wrap) or the result is 0.
RECURSIVE IntShiftOn(_, _)
IntShiftOn(s, wrap) ==
    IF s < IntBits - 1 THEN {s}
    ELSE IF s = IntBits - 1 THEN (IntBits - 1) .. (BitsPerWord - 1)
    ELSE IF wrap THEN IntShiftOn(s - IntBits, wrap)
    ELSE {}

IntShift(s) == IntShiftOn(s, plat.wrap)

DataPage_dataPage(p) == p \ PageOffBits

DataPage_pointer(this, i) == AddOff(this, i * ObjectSize)

MarkedWordAddr(this, i) == AddOff(this, OffMarked + WordBytes * (i \div BitsPerWord))

\* *a |= bits
OrInto(M, a, bits) ==
    IF ~Ok(M) THEN M
    ELSE IF ~IsMapped(M, a) THEN Fault(M, "segv")
    ELSE Store(M, a, Load(M, a) \cup bits)

DataPage_mark(M, this, i) ==
    OrInto(M, MarkedWordAddr(this, i), IntShift(i % BitsPerWord))

\* Defined where the word read is mapped.
DataPage_marked(M, this, i) ==
    (Load(M, MarkedWordAddr(this, i)) \cap IntShift(i % BitsPerWord)) # {}

DataPage_clear(M, this) ==
    DataPage_mark(Memset0(M, AddOff(this, OffMarked), DIVU(DataPage_Size, BitsPerWord)),
                  this, DataPage_Size - 1)

\* new DataPage(heap)
DataPage_new(M, base, heap) == Store(Mmap(M, base), AddOff(base, OffHeap), heap)

DataPage_heap(M, this) == Load(M, AddOff(this, OffHeap))

(***************************************************************************)
(* ObjectInfo<Class> and MemberBase<Class> of chompact.cpp.                *)
(***************************************************************************)
\* sizeof(Class) / sizeof(MemberBase<Class>) for Class = List.
InfoCapacity == (OffListNext + WordBytes) \div WordBytes

\* Collected<List>::info before its constructor runs: zero-initialised.
ObjectInfo_static ==
    [ m_numChildren |-> 0, m_initializing |-> FALSE, m_finalized |-> FALSE,
      m_children |-> [ i \in 1 .. InfoCapacity |-> NULL ] ]

ObjectInfo_finalized(inf) == inf.m_finalized

ObjectInfo_append(inf, child) ==
    IF ~inf.m_initializing THEN inf
    ELSE [inf EXCEPT !.m_children[inf.m_numChildren + 1] = child,
                     !.m_numChildren = @ + 1]

\* MemberBase<Class>::MemberBase(), its effect on the registry.
MemberBase_ctor(inf, this) ==
    IF ObjectInfo_finalized(inf) THEN inf
    ELSE ObjectInfo_append(inf, this)

\* List::List() at address c: one Member, `next`.
List_ctor(inf, c) == MemberBase_ctor(inf, AddOff(c, OffListNext))

\* ObjectInfo<Class>::ObjectInfo(), with its local `Class c` at address c.
ObjectInfo_ctor(inf, c) ==
    LET i1 == [inf EXCEPT !.m_numChildren = 0, !.m_initializing = TRUE]
        i2 == List_ctor(i1, c)
        i3 == [i2 EXCEPT !.m_children =
                  [ i \in 1 .. InfoCapacity |->
                      IF i <= i2.m_numChildren THEN Sub64(i2.m_children[i], c)
                      ELSE i2.m_children[i] ]]
    IN  [i3 EXCEPT !.m_finalized = TRUE]

\* Where the static Collected<List>::info lies (the data segment), and its
\* m_children: after two ints' worth of counters and flags, and m_loader.
InfoAddr == {5, 14, 22}

OffChildren == 2 * WordBytes

\* Collected<Class>::children(): the pair (begin, end); `this` is not used.
Collected_children(inf, this) ==
    [ first  |-> AddOff(InfoAddr, OffChildren),
      second |-> AddOff(InfoAddr, OffChildren + WordBytes * inf.m_numChildren) ]

\* Where the local `Class c` of ObjectInfo's constructor lies (the stack).
StackAddrs == { HighPart \cup {6, 10}, HighPart \cup {7, 9, 11} }

(***************************************************************************)
(* Heap: marking and collection.                                           *)
(***************************************************************************)
Heap_markIndex(p) == Mod64(p, DataPage_Size)

\* Defined where the word read is mapped.
Heap_marked(M, p) == DataPage_marked(M, DataPage_dataPage(p), Heap_markIndex(p))

Heap_mark(M, p) == DataPage_mark(M, DataPage_dataPage(p), Heap_markIndex(p))

\* Heap::heap(p): the m_heap of the page p lies in.  Defined where mapped.
Heap_heap(M, p) == DataPage_heap(M, DataPage_dataPage(p))

\* assert(marked(p)); return;   -- nothing after the return is ever run.
Heap_markChildren(M, p) ==
    IF ~Ok(M) THEN M
    ELSE IF ~IsMapped(M, MarkedWordAddr(DataPage_dataPage(p), Heap_markIndex(p)))
         THEN Fault(M, "segv")
    ELSE IF ~Heap_marked(M, p) THEN Fault(M, "assert_marked")
    ELSE M

\* A variant of MarkAndTrace that pushes the pointer it marked.
MarkAndTrace_pushing(M, p) ==
    IF Ok(Heap_markChildren(Heap_mark(M, p), p))
       /\ \A k \in 1 .. Len(M.m_marking) : M.m_marking[k] # p
    THEN [Heap_markChildren(Heap_mark(M, p), p) EXCEPT !.m_marking = Append(@, p)]
    ELSE Heap_markChildren(Heap_mark(M, p), p)

\* mark(p); markChildren(p);
MarkAndTrace(M, p) == Heap_markChildren(Heap_mark(M, p), p)

\* The root at entry address ea.
MarkRootAt(M, ea) ==
    IF ~Ok(M) THEN M
    ELSE IF ~IsMapped(M, ea) THEN Fault(M, "segv")
    ELSE MarkAndTrace(M, Trunc32(Load(M, ea)))

\* The body of the root loop: it reads m_handles[i] of page i, for every j.
MarkRoot(M, i) ==
    MarkRootAt(M, AddOff(M.m_indirectPointerPages[i + 1],
                         OffHandles + IndirectPointerSize * i))

RECURSIVE RootsOfPage(_, _, _)
\* The round of the loop that took M to M2, and the rounds after it.
RootsRound(M, M2, i, j) == IF M2 = M THEN M ELSE RootsOfPage(M2, i, j + 1)

\* for (j = 0; j < IndirectPointerPage::Size; ++j).  The body does not depend
\* on j: once it leaves the state as it is, the remaining rounds do too.
RootsOfPage(M, i, j) ==
    IF j >= IndirectPointerPage_Size \/ ~Ok(M) THEN M
    ELSE RootsRound(M, MarkRoot(M, i), i, j)

\* for (i = 0; i < m_indirectPointerPages.size(); ++i)
RECURSIVE MarkRoots(_, _)
MarkRoots(M, i) ==
    IF i >= Len(M.m_indirectPointerPages) \/ ~Ok(M) THEN M
    ELSE MarkRoots(RootsOfPage(M, i, 0), i + 1)

\* A variant of Drain that pushes a pointer instead of emptying the stack.
Drain_pushing(M) == IF Ok(M) THEN [M EXCEPT !.m_marking = Append(@, NULL)] ELSE M

\* while (!m_marking.empty()) { p = top(); pop(); markChildren(p); }
RECURSIVE Drain(_)
Drain(M) ==
    IF ~Ok(M) \/ M.m_marking = <<>> THEN M
    ELSE LET n == Len(M.m_marking)
         IN  Drain(Heap_markChildren(
                     [M EXCEPT !.m_marking = SubSeq(@, 1, n - 1)], M.m_marking[n]))

\* m_nextFreeDataPage = 0; m_nextFreeObject = 0;
ResetCursors(M) ==
    IF Ok(M) THEN [M EXCEPT !.m_nextFreeDataPage = 0, !.m_nextFreeObject = 0]
    ELSE M

Heap_collect(M) ==
    IF ~Ok(M) THEN M
    ELSE IF M.m_marking # <<>> THEN Fault(M, "assert_marking")
    ELSE ResetCursors(Drain(MarkRoots(M, 0)))

(***************************************************************************)
(* Heap: allocation of objects.                                            *)
(***************************************************************************)
\* The first slot index whose bitmap word lies past the end of the page.
ScanEnd == ((PageSize - OffMarked) \div WordBytes) * BitsPerWord

\* The slots of the bitmap word `word` (number w, readable iff ok) at which
\* the inner do-while of allocateObject stops: the slot tests as marked, or
\* the cursor then equals Size, or the word is not mapped (no page is mapped
\* right after a DataPage in the layouts considered).
StopsOf(word, w, ok) ==
    { i \in (w * BitsPerWord) .. (w * BitsPerWord + BitsPerWord - 1) :
        \/ ~ok
        \/ word # {} /\ (word \cap IntShift(i % BitsPerWord)) # {}
        \/ i + 1 = DataPage_Size }

WordStops(M, a, w) ==
    StopsOf(Load(M, a), w, w < ScanEnd \div BitsPerWord /\ IsMapped(M, a))

StopsInWord(M, dp, w) == WordStops(M, AddOff(dp, OffMarked + WordBytes * w), w)

\* Where the inner do-while stops, given the slot i it stops at.
ScanStop(M, dp, i) ==
    IF ~IsMapped(M, MarkedWordAddr(dp, i)) \/ i >= ScanEnd
    THEN [kind |-> "segv", n |-> i]
    ELSE IF DataPage_marked(M, dp, i) THEN [kind |-> "found", n |-> i]
    ELSE [kind |-> "end", n |-> i + 1]

Least(S) == CHOOSE x \in S : \A y \in S : x <= y

\* The slots from `from` on at which the inner do-while stops.
StopsFrom(M, dp, from) ==
    { i \in UNION { StopsInWord(M, dp, w) :
                      w \in (from \div BitsPerWord) .. (ScanEnd \div BitsPerWord) } :
        i >= from }

\* The inner do-while from slot n on: where it stops and why.
ScanPage(M, dp, n) ==
    ScanStop(M, dp, Least(StopsFrom(M, dp, IF n > ScanEnd THEN ScanEnd ELSE n)))

\* The slot indices allocateObject passes to dp->marked(), and to mark() and
\* pointer() for the last of them, before the scan stopped at sc.
IndicesUpTo(M, sc) == M.m_nextFreeObject .. (IF sc.kind = "end" THEN sc.n - 1 ELSE sc.n)

ScannedSlots(M, dp) == IndicesUpTo(M, ScanPage(M, dp, M.m_nextFreeObject))

\* A variant of TakeSlot that leaves out `m_nextFreeObject++`.
TakeSlot_noAdvance(M, dp, n) ==
    [M |-> DataPage_mark(M, dp, n), ret |-> DataPage_pointer(dp, n),
     collected |-> FALSE]

\* The body of `if (dp->marked(m_nextFreeObject))` with the cursor at n.
TakeSlot(M, dp, n) ==
    [M |-> [DataPage_mark(M, dp, n) EXCEPT !.m_nextFreeObject = n + 1],
     ret |-> DataPage_pointer(dp, n), collected |-> FALSE]

RECURSIVE AllocateFrom(_, _)
\* ++m_nextFreeDataPage done: the outer `while`, then collect() and the end
\* of the function, which returns nothing.
NextDataPage(M1, dp) ==
    IF M1.m_nextFreeDataPage # Len(M1.m_dataPages)
    THEN AllocateFrom(M1, dp)
    ELSE [M |-> Fault(Heap_collect(M1), "no_return"),
          ret |-> Indeterminate, collected |-> TRUE]

\* What allocateObject does once the inner do-while has stopped at sc.
AfterScan(M, dp, sc) ==
    CASE sc.kind = "segv" ->
           [M |-> Fault([M EXCEPT !.m_nextFreeObject = sc.n], "segv"),
            ret |-> Indeterminate, collected |-> FALSE]
      [] sc.kind = "found" -> TakeSlot(M, dp, sc.n)
      [] OTHER -> NextDataPage([M EXCEPT !.m_nextFreeObject = 0,
                                         !.m_nextFreeDataPage = @ + 1], dp)

\* The nested do-while with dp as read on entry.
AllocateFrom(M, dp) == AfterScan(M, dp, ScanPage(M, dp, M.m_nextFreeObject))

Heap_allocateObject(M) ==
    IF M.m_nextFreeDataPage >= Len(M.m_dataPages)
    THEN [M |-> Fault(M, "segv"), ret |-> Indeterminate, collected |-> FALSE]
    ELSE AllocateFrom(M, M.m_dataPages[M.m_nextFreeDataPage + 1])

\* The registry part of Collected<List>::Collected(): the MemberBase of `next`.
Collected_members(M, member) ==
    IF Ok(M) THEN [M EXCEPT !.info = MemberBase_ctor(@, member)] ELSE M

\* Collected<List>::Collected() at address o, `next` at address member.
Collected_at(M, o, member) ==
    Collected_members(Store(Store(M, o, VTable), member, NULL), member)

Collected_ctor(M, o) == Collected_at(M, o, AddOff(o, OffInstance + OffListNext))

\* new(heap) Collected<List>
\* The constructor run on what operator new returned.
Constructed(A) == [A EXCEPT !.M = Collected_ctor(A.M, A.ret)]

Collected_new(M) == Constructed(Heap_allocateObject(M))

(***************************************************************************)
(* IndirectPointerPage, Heap::allocateIndirectPointer, IndirectPointer.    *)
(***************************************************************************)
\* new IndirectPointerPage : m_begin(1), m_freeList(0)
IndirectPointerPage_new(M, base) ==
    Store(Store(Mmap(M, base), AddOff(base, OffBegin), BitsOf(1)),
          AddOff(base, OffFreeList), BitsOf(0))

\* &m_handles[n] for a size_t n held as a word.
HandleAddr(this, n) ==
    Add64(AddOff(this, OffHandles), { b + 3 : b \in { x \in n : x + 3 < BitsPerWord } })

\* The bit of u.m_valid in an IndirectPointerBase.
ValidBit == BitsPerWord - 1

\* n <= IndirectPointerPage::Size, for a size_t n held as a word.
WithinSize(n) == n \subseteq 0 .. 30 /\ ValOf(n) <= IndirectPointerPage_Size

\* IndirectPointerPage::allocateIndirectPointer(), `this` a mapped page.
\* The free-list branch, ea the address of m_handles[m_freeList].
TakeFree(M, this, ea) ==
    IF ~IsMapped(M, ea) THEN [M |-> Fault(M, "segv"), ret |-> Indeterminate]
    ELSE IF ValidBit \notin Load(M, ea)
    THEN [M |-> Fault(M, "assert_valid"), ret |-> Indeterminate]
    ELSE [M |-> Store(M, AddOff(this, OffFreeList), Trunc32(Load(M, ea))),
          ret |-> ea]

\* The body, with m_freeList and m_begin as read.
TakeEntry(M, this, freeList, begin) ==
    IF freeList # NULL THEN TakeFree(M, this, HandleAddr(this, freeList))
    ELSE IF WithinSize(begin)
    THEN [M |-> Store(M, AddOff(this, OffBegin), Add64(begin, BitsOf(1))),
          ret |-> HandleAddr(this, begin)]
    ELSE [M |-> M, ret |-> NULL]

IndirectPointerPage_allocateIndirectPointer(M, this) ==
    TakeEntry(M, this, Load(M, AddOff(this, OffFreeList)),
              Load(M, AddOff(this, OffBegin)))

\* Heap::allocateIndirectPointer(): the do-while, then the end of the
\* function, which returns nothing.
RECURSIVE Heap_allocateIndirectPointer(_)
\* ++m_nextFreeIndirectPointerPage done: the `while`, then the end of the
\* function, which returns nothing.
NextIndirectPointerPage(M1) ==
    IF M1.m_nextFreeIndirectPointerPage # Len(M1.m_indirectPointerPages)
    THEN Heap_allocateIndirectPointer(M1)
    ELSE [M |-> Fault(M1, "no_return"), ret |-> Indeterminate]

\* if (iptr) return iptr; ++m_nextFreeIndirectPointerPage;
AfterPage(R) ==
    IF ~Ok(R.M) \/ R.ret # NULL THEN R
    ELSE NextIndirectPointerPage([R.M EXCEPT !.m_nextFreeIndirectPointerPage = @ + 1])

Heap_allocateIndirectPointer(M) ==
    IF M.m_nextFreeIndirectPointerPage >= Len(M.m_indirectPointerPages)
    THEN [M |-> Fault(M, "segv"), ret |-> Indeterminate]
    ELSE AfterPage(IndirectPointerPage_allocateIndirectPointer(
                       M, M.m_indirectPointerPages[M.m_nextFreeIndirectPointerPage + 1]))

\* IndirectPointerBase::operator new(s, heap): it calls
\* heap->allocateIndirectPointer() and returns nothing.  What the caller
\* receives is undefined: `passed` tells whether it is the value the call
\* left behind.  A call through a Heap* that is not &heap faults.
\* The end of operator new after the call returned R.
FallOff(R, passed) ==
    IF ~Ok(R.M) \/ passed THEN R
    ELSE [M |-> Fault(R.M, "no_return"), ret |-> Indeterminate]

IndirectPointerBase_new(M, heap, passed) ==
    IF ~Ok(M) THEN [M |-> M, ret |-> Indeterminate]
    ELSE IF heap # HeapAddr THEN [M |-> Fault(M, "segv"), ret |-> Indeterminate]
    ELSE FallOff(Heap_allocateIndirectPointer(M), passed)

\* IndirectPointer<Class>::IndirectPointer(ptr): u.m_data = (uintptr_t) ptr,
\* u.m_data an unsigned.
IndirectPointer_ctor(M, this, ptr) == Store32(M, this, ptr)

\* The constructor run on what operator new returned.
Placed(R, ptr) == [R EXCEPT !.M = IndirectPointer_ctor(R.M, R.ret, ptr)]

\* new (Heap::heap(of)) IndirectPointer<Class>(ptr)
IndirectPointer_new(M, of, ptr, passed) ==
    IF ~Ok(M) THEN [M |-> M, ret |-> Indeterminate]
    ELSE IF ~IsMapped(M, AddOff(DataPage_dataPage(of), OffHeap))
    THEN [M |-> Fault(M, "segv"), ret |-> Indeterminate]
    ELSE Placed(IndirectPointerBase_new(M, Heap_heap(M, of), passed), ptr)

(***************************************************************************)
(* Handle<Class> and Member<Class, Property>.  A handle is its m_iptr.     *)
(***************************************************************************)
\* &ptr->instance
InstanceOf(ptr) == Add64(ptr, BitsOf(OffInstance))

\* Handle::operator->() : m_iptr ? (Class*) m_iptr->u.m_data : NULL.
\* Defined where m_iptr is null or mapped.
\* A variant of operator-> that reads the first table entry for an empty handle.
Handle_arrow_stale(M, iptr) ==
    Trunc32(Load(M, IF iptr = NULL
                    THEN AddOff(M.m_indirectPointerPages[1], OffHandles + IndirectPointerSize)
                    ELSE iptr))

Handle_arrow(M, iptr) == IF iptr = NULL THEN NULL ELSE Trunc32(Load(M, iptr))

\* Handle::operator bool() : m_iptr ? m_iptr->u.m_data : 0
Handle_bool(M, iptr) == iptr # NULL /\ Trunc32(Load(M, iptr)) # NULL

CanRead(M, a) == IsMapped(M, a)

\* Handle::Handle(Collected<Class>* ptr): two new-expressions.
\* The constructor body: a second new-expression, its result dropped.
Handle_body(R1, ptr, passed2) ==
    [M |-> IndirectPointer_new(R1.M, ptr, InstanceOf(ptr), passed2).M,
     ret |-> R1.ret]

Handle_ctor(M, ptr, passed1, passed2) ==
    Handle_body(IndirectPointer_new(M, ptr, InstanceOf(ptr), passed1), ptr, passed2)

\* The body shared by the three Handle::operator= : the value stored, or the
\* entry allocated for an empty handle.  ret is the handle's m_iptr.
Handle_assign(M, iptr, ptr, passed) ==
    IF iptr # NULL THEN [M |-> Store32(M, iptr, ptr), ret |-> iptr]
    ELSE IndirectPointer_new(M, ptr, InstanceOf(ptr), passed)

\* Handle& operator=(Collected<Class>* collected)
Handle_assignCollected(M, iptr, collected, passed) ==
    Handle_assign(M, iptr, collected, passed)

\* Handle& operator=(const Member<T, Class>& handle), the member at address m
Handle_assignMember(M, iptr, m, passed) ==
    IF ~CanRead(M, m) THEN [M |-> Fault(M, "segv"), ret |-> iptr]
    ELSE Handle_assign(M, iptr, Load(M, m), passed)

\* Handle& operator=(const Handle<Class>& handle): ptr is handle.m_iptr itself
Handle_assignHandle(M, iptr, other, passed) ==
    Handle_assign(M, iptr, other, passed)

\* Member& operator=(Collected<Property>* collected), the member at address m
Member_assignCollected(M, m, collected) == Store(M, m, collected)

\* Member::operator->() : (Property*) m_ptr.  Defined where m is mapped.
Member_arrow(M, m) == Load(M, m)

(***************************************************************************)
(* Heap::Heap.                                                             *)
(***************************************************************************)
\* The process before main: nothing of the heap mapped.
Boot(pl) ==
    [ mapped |-> IF pl.zp THEN {NULL} ELSE {}, mem |-> <<>>, fault |-> "none",
      m_marking |-> <<>>, m_dataPages |-> <<>>, m_nextFreeDataPage |-> 0,
      m_nextFreeObject |-> 0, m_indirectPointerPages |-> <<>>,
      m_nextFreeIndirectPointerPage |-> 0, info |-> ObjectInfo_static ]

\* Heap::Heap()
Heap_ctor(M, pl) ==
    LET dp == MmapDataPage(pl)
        ip == MmapIndirectPointerPage(pl)
        M1 == [M EXCEPT !.m_nextFreeDataPage = 0, !.m_nextFreeObject = 0,
                        !.m_nextFreeIndirectPointerPage = 0]
        M2 == [DataPage_new(M1, dp, HeapAddr) EXCEPT !.m_dataPages = Append(@, dp)]
        M3 == DataPage_clear(M2, dp)
    IN  [IndirectPointerPage_new(M3, ip) EXCEPT
            !.m_indirectPointerPages = Append(@, ip)]

(***************************************************************************)
(* chompact2.cpp: ObjectInfo<ClassId>, MemberBase<ClassId>, DynamicWrapper. *)
(* Dyn(List) is a vtable pointer, `int data`, then `next`.                 *)
(***************************************************************************)
DynOffData == WordBytes

DynOffNext == 2 * WordBytes

\* ObjectInfo(): finalized(false), children empty.
DynObjectInfo_ctor == [ finalized |-> FALSE, children |-> <<>> ]

\* ObjectInfo::populate(base)
DynObjectInfo_populate(inf, base) ==
    [ finalized |-> TRUE,
      children |-> [ i \in 1 .. Len(inf.children) |-> Sub64(inf.children[i], base) ] ]

\* A variant of DynMemberBase_ctor that leaves out the `finalized` test.
DynMemberBase_unguarded(inf, this) == [inf EXCEPT !.children = Append(@, this)]

\* MemberBase<ClassId>::MemberBase(), its effect on the registry.
DynMemberBase_ctor(inf, this) ==
    IF inf.finalized THEN inf
    ELSE [inf EXCEPT !.children = Append(@, this)]

\* ListImpl<IdType>'s constructor at address base: one Member, `next`.
DynList_ctor(inf, base) == DynMemberBase_ctor(inf, AddOff(base, DynOffNext))

\* DynamicWrapper<List>::DynamicWrapper() at address base, after its base class.
DynamicWrapper_ctor(inf, base) ==
    DynObjectInfo_populate(DynList_ctor(inf, base), base)

\* What `new Dyn(List)` can return: chunks of the C++ heap.
\* Where the elements of info.children lie (the vector's heap buffer).
DynChildrenData == {6, 14, 22}

\* DynamicWrapper<Class>::children(): (&children.front(), &children.back()),
\* for a registry that is not empty; `this` is not used.
DynamicWrapper_children(inf, this) ==
    [ first  |-> DynChildrenData,
      second |-> AddOff(DynChildrenData, WordBytes * (Len(inf.children) - 1)) ]

DynAddrs == { {5, 21}, {6, 21}, {5, 6, 21} }

(***************************************************************************)
(* The driver: a main() that uses the heap through its public operations.  *)
(***************************************************************************)
Handles == 1 .. NumHandles

Ptrs == 1 .. NumPtrs

SetMachine(M) ==
    /\ mapped' = M.mapped
    /\ mem' = M.mem
    /\ fault' = M.fault
    /\ m_marking' = M.m_marking
    /\ m_dataPages' = M.m_dataPages
    /\ m_nextFreeDataPage' = M.m_nextFreeDataPage
    /\ m_nextFreeObject' = M.m_nextFreeObject
    /\ m_indirectPointerPages' = M.m_indirectPointerPages
    /\ m_nextFreeIndirectPointerPage' = M.m_nextFreeIndirectPointerPage
    /\ info' = M.info

NoOp == [ op |-> "none", h |-> 0, ret |-> NULL, want |-> NULL, kind |-> "",
          exhausted |-> FALSE ]

Running == fault = "none" /\ steps < MaxSteps

\* The heap variables hold machine M.
IsMachine(M) ==
    /\ mapped = M.mapped
    /\ mem = M.mem
    /\ fault = M.fault
    /\ m_marking = M.m_marking
    /\ m_dataPages = M.m_dataPages
    /\ m_nextFreeDataPage = M.m_nextFreeDataPage
    /\ m_nextFreeObject = M.m_nextFreeObject
    /\ m_indirectPointerPages = M.m_indirectPointerPages
    /\ m_nextFreeIndirectPointerPage = M.m_nextFreeIndirectPointerPage
    /\ info = M.info

\* Static initialisation, then `Heap heap;` in main.
Init ==
    /\ plat \in Platforms
    /\ \E c \in StackAddrs :
         IsMachine(Heap_ctor([Boot(plat) EXCEPT
                                !.info = ObjectInfo_ctor(ObjectInfo_static, c)], plat))
    /\ handles = [ h \in Handles |-> NULL ]
    /\ ptrs = [ p \in Ptrs |-> NULL ]
    /\ steps = 0
    /\ last = NoOp
    /\ allocLog = <<>>
    /\ objects = <<>>
    /\ dynInfo = DynObjectInfo_ctor
    /\ dynLog = <<>>

\* How an allocation A ended.
KindOf(A) ==
    IF A.collected THEN (IF A.M.fault = "no_return" THEN "no_return" ELSE "fault")
    ELSE IF A.ret = Indeterminate THEN "fault" ELSE "slot"

NewStep(A, p) ==
    /\ SetMachine(A.M)
    /\ ptrs' = IF Ok(A.M) THEN [ptrs EXCEPT ![p] = A.ret] ELSE ptrs
    /\ objects' = IF Ok(A.M) /\ A.ret \notin Objects THEN Append(objects, A.ret) ELSE objects
    /\ allocLog' = IF A.collected THEN <<>>
                   ELSE IF KindOf(A) = "slot" THEN Append(allocLog, A.ret)
                   ELSE allocLog
    /\ last' = [NoOp EXCEPT !.op = "new", !.h = p, !.ret = A.ret, !.kind = KindOf(A),
                            !.exhausted = A.collected]
    /\ steps' = steps + 1
    /\ UNCHANGED <<plat, dynVars, handles>>

\* ptrs[p] = new(heap) Collected<List>;
New(p) ==
    /\ Running
    /\ NewStep(Collected_new(Machine), p)

\* heap.collect();
Collect ==
    /\ Running
    /\ SetMachine(Heap_collect(Machine))
    /\ allocLog' = <<>>
    /\ last' = [NoOp EXCEPT !.op = "collect"]
    /\ steps' = steps + 1
    /\ UNCHANGED <<plat, dynVars, handles, ptrs, objects>>

\* The effect of a statement that leaves handle h with m_iptr R.ret.
HandleStep(R, h, op, want) ==
    /\ SetMachine(R.M)
    /\ handles' = IF Ok(R.M) THEN [handles EXCEPT ![h] = R.ret] ELSE handles
    /\ last' = [NoOp EXCEPT !.op = op, !.h = h, !.want = want]
    /\ steps' = steps + 1
    /\ UNCHANGED <<plat, dynVars, ptrs, allocLog, objects>>

\* Handle<List> h = ptrs[p];   (a declaration: h is constructed once)
HandleFromPtr(h, p) ==
    /\ Running
    /\ handles[h] = NULL
    /\ ptrs[p] # NULL
    /\ \E passed1, passed2 \in BOOLEAN :
         /\ passed1 \/ ~passed2
         /\ HandleStep(Handle_ctor(Machine, ptrs[p], passed1, passed2), h, "init",
                       InstanceOf(ptrs[p]))

\* Handle<List> h = g;   (the implicit copy constructor copies m_iptr)
HandleCopy(h, g) ==
    /\ Running
    /\ h # g
    /\ handles[h] = NULL
    /\ handles[g] # NULL
    /\ HandleStep([M |-> Machine, ret |-> handles[g]], h, "copy",
                  Handle_arrow(Machine, handles[g]))

\* h = ptrs[p];
HandleAssignPtr(h, p) ==
    /\ Running
    /\ ptrs[p] # NULL
    /\ \E passed \in BOOLEAN :
         /\ handles[h] = NULL \/ passed
         /\ HandleStep(Handle_assignCollected(Machine, handles[h], ptrs[p], passed),
                       h, "assignPtr", InstanceOf(ptrs[p]))

\* The instance of the object member m refers to (null for a null member).
MemberTarget(M, m) ==
    IF CanRead(M, m) /\ Member_arrow(M, m) # NULL THEN InstanceOf(Member_arrow(M, m))
    ELSE NULL

\* h = g->next;
HandleAssignNext(h, g) ==
    /\ Running
    /\ handles[g] # NULL
    /\ LET m == Add64(Handle_arrow(Machine, handles[g]), BitsOf(OffListNext))
       IN  \E passed \in BOOLEAN :
             /\ handles[h] = NULL \/ passed
             /\ HandleStep(Handle_assignMember(Machine, handles[h], m, passed),
                           h, "assignMember",
                           MemberTarget(Machine, m))

\* h = g;
HandleAssignHandle(h, g) ==
    /\ Running
    /\ h # g
    /\ handles[g] # NULL
    /\ \E passed \in BOOLEAN :
         /\ handles[h] = NULL \/ passed
         /\ HandleStep(Handle_assignHandle(Machine, handles[h], handles[g], passed),
                       h, "assignHandle", Handle_arrow(Machine, handles[g]))

\* g->next = ptrs[p];
SetNext(g, p) ==
    /\ Running
    /\ handles[g] # NULL
    /\ ptrs[p] # NULL
    /\ LET m == Add64(Handle_arrow(Machine, handles[g]), BitsOf(OffListNext))
       IN  SetMachine(Member_assignCollected(Machine, m, ptrs[p]))
    /\ last' = [NoOp EXCEPT !.op = "setNext", !.h = g, !.want = ptrs[p]]
    /\ steps' = steps + 1
    /\ UNCHANGED <<plat, dynVars, handles, ptrs, allocLog, objects>>

\* g->data = v;
SetData(g, v) ==
    /\ Running
    /\ handles[g] # NULL
    /\ LET a == Add64(Handle_arrow(Machine, handles[g]), BitsOf(OffListData))
       IN  SetMachine(Store32(Machine, a, BitsOf(v)))
    /\ last' = [NoOp EXCEPT !.op = "setData", !.h = g, !.want = BitsOf(v)]
    /\ steps' = steps + 1
    /\ UNCHANGED <<plat, dynVars, handles, ptrs, allocLog, objects>>

\* chompact2.cpp: new Dyn(List), at address base.
DynNew(base) ==
    /\ steps < MaxSteps
    /\ \A k \in 1 .. Len(dynLog) : dynLog[k].base # base
    /\ dynInfo' = DynamicWrapper_ctor(dynInfo, base)
    /\ dynLog' = Append(dynLog, [ base |-> base,
                                  slots |-> Len(dynInfo'.children),
                                  finalizedBefore |-> dynInfo.finalized ])
    /\ steps' = steps + 1
    /\ UNCHANGED <<plat, heapVars, handles, ptrs, last, allocLog, objects>>

Next ==
    \/ \E p \in Ptrs : New(p)
    \/ Collect
    \/ \E h \in Handles, p \in Ptrs : HandleFromPtr(h, p)
    \/ \E h, g \in Handles : HandleCopy(h, g)
    \/ \E h \in Handles, p \in Ptrs : HandleAssignPtr(h, p)
    \/ \E h, g \in Handles : HandleAssignNext(h, g)
    \/ \E h, g \in Handles : HandleAssignHandle(h, g)
    \/ \E g \in Handles, p \in Ptrs : SetNext(g, p)
    \/ \E g \in Handles, v \in 1 .. MaxData : SetData(g, v)

Spec == Init /\ [][Next]_vars

\* The registries alone: instances of Collected<List> (chompact.cpp) and of
\* Dyn(List) (chompact2.cpp) are constructed in any order.
NextInfo ==
    \/ \E p \in Ptrs : New(p)
    \/ \E base \in DynAddrs : DynNew(base)

SpecInfo == Init /\ [][NextInfo]_vars

\* Slot indices a caller passes to one page: both ends of each bitmap word,
\* the last word and the last slot.
SlotIndices == {0, 1, 31, 32, 33, 63, 64, 220, DataPage_Size - 1}

\* m_dataPages[0]->mark(i);
MarkSlot(i) ==
    /\ Running
    /\ SetMachine(DataPage_mark(Machine, m_dataPages[1], i))
    /\ last' = [NoOp EXCEPT !.op = "mark", !.h = i]
    /\ steps' = steps + 1
    /\ UNCHANGED <<plat, dynVars, handles, ptrs, allocLog, objects>>

\* m_dataPages[0]->clear();
ClearPage ==
    /\ Running
    /\ SetMachine(DataPage_clear(Machine, m_dataPages[1]))
    /\ last' = [NoOp EXCEPT !.op = "clear"]
    /\ steps' = steps + 1
    /\ UNCHANGED <<plat, dynVars, handles, ptrs, allocLog, objects>>

\* The bitmap of the first data page alone, under any sequence of calls.
NextPage ==
    \/ \E i \in SlotIndices : MarkSlot(i)
    \/ ClearPage

SpecPage == Init /\ [][NextPage]_vars

\* m_begin of the first table page, as a number.
TableBegin(M) ==
    ValOf(Load(M, AddOff(M.m_indirectPointerPages[1], OffBegin)) \cap (0 .. 30))

\* m_indirectPointerPages[0]->allocateIndirectPointer();
PageAllocate ==
    /\ fault = "none"
    /\ SetMachine(IndirectPointerPage_allocateIndirectPointer(
                      Machine, m_indirectPointerPages[1]).M)
    /\ last' = [NoOp EXCEPT !.op = "entry", !.h = TableBegin(Machine),
                            !.ret = IndirectPointerPage_allocateIndirectPointer(
                                        Machine, m_indirectPointerPages[1]).ret]
    /\ UNCHANGED <<plat, dynVars, handles, ptrs, steps, allocLog, objects>>

\* heap.allocateIndirectPointer();
HeapAllocate ==
    /\ fault = "none"
    /\ SetMachine(Heap_allocateIndirectPointer(Machine).M)
    /\ last' = [NoOp EXCEPT !.op = "entry", !.h = TableBegin(Machine),
                            !.ret = Heap_allocateIndirectPointer(Machine).ret]
    /\ UNCHANGED <<plat, dynVars, handles, ptrs, steps, allocLog, objects>>

\* The first table page alone, under any sequence of allocations of entries
\* (no entry is ever released).
NextTable ==
    \/ PageAllocate
    \/ HeapAllocate

SpecTable == Init /\ [][NextTable]_vars

(***************************************************************************)
(* What the properties speak of.                                           *)
(***************************************************************************)
\* m_begin of an IndirectPointerPage, as a number.
BeginOf(pg) == ValOf(Load(Machine, AddOff(pg, OffBegin)) \cap (0 .. 30))

\* The table entries in use: those handed out, 1 .. m_begin - 1 of each page.
\* No operation releases an entry, and the free list stays empty.
Entries ==
    UNION { { HandleAddr(m_indirectPointerPages[i], BitsOf(j)) :
                j \in 1 .. (BeginOf(m_indirectPointerPages[i]) - 1) } :
            i \in 1 .. Len(m_indirectPointerPages) }

\* What entry e points at.
Target(e) == Handle_arrow(Machine, e)

\* Pointer x refers to object o: to the Collected<List> or to its instance.
Refers(x, o) == x = o \/ x = InstanceOf(o)

Rooted(o) == \E e \in Entries : Refers(Target(e), o)

\* The value of o's Member `next`.
NextOf(o) == Load(Machine, AddOff(o, OffInstance + OffListNext))

RECURSIVE ReachFrom(_)
ReachFrom(S) ==
    IF \A o \in S : \A o2 \in Objects : Refers(NextOf(o), o2) => o2 \in S
    THEN S
    ELSE ReachFrom(S \cup { o2 \in Objects : \E o \in S : Refers(NextOf(o), o2) })

\* The objects reachable from a root by zero or more `next` edges.
Reachable == ReachFrom({ o \in Objects : Rooted(o) })

\* The slot of object o in its page.
SlotOf(o) == ValOf(o \cap PageOffBits) \div ObjectSize

\* The bit of o's slot, as the allocator reads it.
SlotMarked(o) == DataPage_marked(Machine, DataPage_dataPage(o), SlotOf(o))

\* o is marked under one of the indexings the code uses: the bit of its slot,
\* or Heap::marked() of the pointers that refer to it.
Marked(o) ==
    SlotMarked(o) \/ Heap_marked(Machine, o) \/ Heap_marked(Machine, InstanceOf(o))

\* The last driver operation was op and it returned.
Returned(op) == last.op = op /\ fault = "none"

(***************************************************************************)
(* Properties of the heap (specification Spec).                            *)
(***************************************************************************)
\* C1: when collect() returns, an object is marked if and only if it is
\* reachable from a root entry by zero or more reference edges; in particular
\* every object not reachable from a root is unmarked.
C1_ReachabilityClosure ==
    Returned("collect") => \A o \in Objects : Marked(o) <=> o \in Reachable

\* C2: allocations with no collect() between them (a collect() run inside
\* allocateObject included) never return the same address twice.
C2_AllocationExclusive ==
    \A i, j \in 1 .. Len(allocLog) : i < j => allocLog[i] # allocLog[j]

\* Two allocations returned with no collect() between them.
C2_TwoAllocations == Len(allocLog) >= 2

\* C3: with A allocated first and rooted, and B allocated after it, not rooted
\* and not referenced, after collect() has returned the bit of B's slot is
\* clear and the next allocateObject() returns B's slot.
C3_GarbageReclaimed ==
    ( /\ Returned("collect")
      /\ Len(objects) = 2
      /\ Rooted(objects[1])
      /\ objects[2] \notin Reachable )
    => /\ ~SlotMarked(objects[2])
       /\ Heap_allocateObject(Machine).ret = objects[2]

\* C4: an allocateObject() that finds no slot and runs collect() ends in an
\* explicit out-of-memory outcome: it throws std::bad_alloc or returns null.
C4_ExhaustionSignalled ==
    (last.op = "new" /\ last.exhausted)
    => \/ fault = "bad_alloc"
       \/ fault = "none" /\ last.ret = NULL

\* C7: after an assignment to handle h from a pointer, a Member or another
\* handle, dereferencing h yields the object the source referred to.
C7_AssignmentRebinds ==
    (last.op \in {"assignPtr", "assignMember", "assignHandle"} /\ fault = "none")
    => Handle_arrow(Machine, handles[last.h]) = last.want

\* C8: a collect() call returns, leaves every object's payload and reference
\* slot and every table entry in use as they were, and leaves every object
\* reachable from a root marked.
C8_CollectFrame ==
    [][ last'.op = "collect"
        => /\ fault' = "none"
           /\ \A o \in Objects : \A d \in {OffInstance + OffListData,
                                           OffInstance + OffListNext} :
                Load(Machine', AddOff(o, d)) = Load(Machine, AddOff(o, d))
           /\ \A e \in Entries : Load(Machine', e) = Load(Machine, e)
           /\ \A o \in Reachable' : Marked(o)' ]_vars

\* The word collect() sets the mark bit in for pointer p.
MarkWordOf(p) == Key(MarkedWordAddr(DataPage_dataPage(p), Heap_markIndex(p)))

\* C9: collect() returns having marked the target of every entry in use and
\* nothing else: an entry not in use is never taken for a root.
C9_RootEnumeration ==
    [][ last'.op = "collect"
        => /\ fault' = "none"
           /\ \A e \in Entries : Heap_marked(Machine', Target(e))
           /\ \A k \in DOMAIN mem' :
                mem'[k] # Cell(mem, k) => \E e \in Entries : k = MarkWordOf(Target(e)) ]_vars

\* C10: outside a running collect() the worker stack is empty, and the
\* precondition assert(m_marking.empty()) of collect() never fails.
C10_NoReentrance == m_marking = <<>> /\ fault # "assert_marking"

\* A collect() run from inside allocateObject() passed its precondition and
\* ran to its end.
C10_CollectInsideAllocate ==
    last.op = "new" /\ last.exhausted /\ fault = "no_return"

(***************************************************************************)
(* Properties of the registries (specification SpecInfo).                  *)
(***************************************************************************)
\* C5: each registry is finalized by its discovery instance and stays
\* finalized, and no later instance appends a slot: the number of recorded
\* slots stays what it was after the discovery instance.
C5_SingleDiscovery ==
    /\ info.m_finalized
    /\ \A c \in StackAddrs :
         info.m_numChildren = ObjectInfo_ctor(ObjectInfo_static, c).m_numChildren
    /\ dynInfo.finalized <=> dynLog # <<>>
    /\ \A k \in 1 .. Len(dynLog) :
         /\ dynLog[k].finalizedBefore <=> k > 1
         /\ dynLog[k].slots = dynLog[1].slots
    /\ dynLog # <<>> => Len(dynInfo.children) = dynLog[1].slots

\* Instances were constructed after the discovery instance, of both types.
C5_LaterInstances == Len(dynLog) >= 2 /\ Objects # {}

\* C6: once a registry is finalized, each recorded offset is the offset of
\* the Member in every instance of the type.
C6_RegistryReadOnly ==
    /\ \A i \in 1 .. info.m_numChildren :
         \A o \in Objects :
           info.m_children[i] =
             Sub64(AddOff(o, OffInstance + OffListNext), InstanceOf(o))
    /\ dynInfo.finalized =>
         \A i \in 1 .. Len(dynInfo.children) :
           \A k \in 1 .. Len(dynLog) :
             dynInfo.children[i] =
               Sub64(AddOff(dynLog[k].base, DynOffNext), dynLog[k].base)

\* C11: a default-constructed handle (m_iptr = 0) owns no table entry, tests
\* false and dereferences to null, whatever the heap holds.
C11_EmptyHandle ==
    \A h \in Handles :
        handles[h] = NULL
        => /\ handles[h] \notin Entries
           /\ ~Handle_bool(Machine, handles[h])
           /\ Handle_arrow(Machine, handles[h]) = NULL

\* An empty handle beside a handle that owns an entry referring to an object.
C11_EmptyBesideOwner ==
    /\ fault = "none"
    /\ \E h, g \in Handles :
         /\ handles[h] = NULL
         /\ handles[g] \in Entries
         /\ \E o \in Objects : Refers(Handle_arrow(Machine, handles[g]), o)

\* C12: an allocateObject() that returns a slot returns the lowest slot at or
\* after the cursor whose bit is clear (every slot it passes over has its bit
\* set), the bit of the returned slot was clear and is set afterwards, and the
\* cursor is left at that slot + 1.
C12_FirstFreeSlot ==
    [][ (steps' = steps + 1 /\ last'.op = "new" /\ last'.kind = "slot")
        => /\ last'.ret = DataPage_pointer(m_dataPages[m_nextFreeDataPage + 1],
                                           SlotOf(last'.ret))
           /\ SlotOf(last'.ret) >= m_nextFreeObject
           /\ ~DataPage_marked(Machine, m_dataPages[m_nextFreeDataPage + 1],
                               SlotOf(last'.ret))
           /\ \A k \in m_nextFreeObject .. (SlotOf(last'.ret) - 1) :
                DataPage_marked(Machine, m_dataPages[m_nextFreeDataPage + 1], k)
           /\ DataPage_marked(Machine', m_dataPages[m_nextFreeDataPage + 1],
                              SlotOf(last'.ret))
           /\ m_nextFreeObject' = SlotOf(last'.ret) + 1 ]_vars

\* C13: no allocateObject() returns the last slot, DataPage::Size - 1, of a
\* page.
C13_SentinelNeverAllocated ==
    (last.op = "new" /\ last.kind = "slot")
    => \A i \in 1 .. Len(m_dataPages) :
         last.ret # DataPage_pointer(m_dataPages[i], DataPage_Size - 1)


\* C14: after clear() the bit of every slot below the last is clear and the
\* bit of the last slot is set, whatever the bitmap held before.
C14_ResetPostcondition ==
    (last.op = "clear" /\ fault = "none")
    => \A i \in 0 .. (DataPage_Size - 1) :
         DataPage_marked(Machine, m_dataPages[1], i) <=> (i = DataPage_Size - 1)

\* C18: mark(i) makes marked(i) true and leaves marked(j) as it was for
\* every other slot j of the page.
C18_MarkBitsIndependent ==
    [][ (steps' = steps + 1 /\ last'.op = "mark" /\ fault' = "none")
        => /\ DataPage_marked(Machine', m_dataPages[1], last'.h)
           /\ \A j \in (0 .. (DataPage_Size - 1)) \ {last'.h} :
                DataPage_marked(Machine', m_dataPages[1], j)
                  = DataPage_marked(Machine, m_dataPages[1], j) ]_vars


\* C15: every allocation reads m_dataPages at an index below its size, and
\* calls marked(), mark() and pointer() of the page only with slot indices
\* below DataPage::Size.
C15_IndicesInRange ==
    [][ (steps' = steps + 1 /\ last'.op = "new")
        => /\ m_nextFreeDataPage < Len(m_dataPages)
           /\ \A i \in ScannedSlots(Machine, m_dataPages[m_nextFreeDataPage + 1]) :
                i < DataPage_Size ]_vars


RangeLen(r) ==
    CHOOSE n \in 0 .. (InfoCapacity + 1) : AddOff(r.first, WordBytes * n) = r.second

\* The address of the j-th slot of the range r.
RangeSlot(r, j) == AddOff(r.first, WordBytes * (j - 1))

\* C17: children() of an object yields as many slots as its type has
\* registered offsets, the j-th being the slot at the object's address plus
\* the j-th offset, for Collected<List> and for Dyn(List).
C17_ChildrenOwnSlots ==
    /\ \A o \in Objects :
         /\ RangeLen(Collected_children(info, o)) = info.m_numChildren
         /\ \A j \in 1 .. info.m_numChildren :
              RangeSlot(Collected_children(info, o), j)
                = Add64(InstanceOf(o), info.m_children[j])
    /\ \A k \in 1 .. Len(dynLog) :
         /\ RangeLen(DynamicWrapper_children(dynInfo, dynLog[k].base))
              = Len(dynInfo.children)
         /\ \A j \in 1 .. Len(dynInfo.children) :
              RangeSlot(DynamicWrapper_children(dynInfo, dynLog[k].base), j)
                = Add64(dynLog[k].base, dynInfo.children[j])


\* The bitmap word and mask that index i of page dp selects.
BitAt(dp, i) == <<MarkedWordAddr(dp, i), IntShift(i % BitsPerWord)>>

\* C19: for every allocated object, Heap::mark() and Heap::marked() of a
\* pointer to it select the bit that allocateObject() tests and sets for the
\* object's slot.
C19_SameBit ==
    \A o \in Objects :
        \E x \in {o, InstanceOf(o)} :
            BitAt(DataPage_dataPage(x), Heap_markIndex(x))
              = BitAt(DataPage_dataPage(o), SlotOf(o))


\* C20: an assignment to one handle leaves what every other handle
\* dereferences to as it was, also for a handle made as a copy of it.
C20_HandlesIndependent ==
    [][ ( /\ steps' = steps + 1
          /\ last'.op \in {"assignPtr", "assignMember", "assignHandle"}
          /\ fault' = "none" )
        => \A g \in Handles \ {last'.h} :
             Handle_arrow(Machine', handles'[g]) = Handle_arrow(Machine, handles[g]) ]_vars


\* The index of table entry e in m_handles of its page.
EntryIndexOf(e) == (ValOf(e \cap PageOffBits) - OffHandles) \div IndirectPointerSize

\* C21: an allocation of a table entry returns an entry of the page with an
\* index in 1 .. Size - 1 that was not handed out before, and returns null
\* once the entries 1 .. Size - 1 are all handed out.
C21_EntriesInBounds ==
    [][ (last'.op = "entry" /\ fault' = "none")
        => /\ last'.ret # NULL
                => /\ DataPage_dataPage(last'.ret) = m_indirectPointerPages[1]
                   /\ last'.ret = AddOff(m_indirectPointerPages[1],
                                         OffHandles + IndirectPointerSize
                                                        * EntryIndexOf(last'.ret))
                   /\ EntryIndexOf(last'.ret) \in 1 .. (IndirectPointerPage_Size - 1)
           /\ mem' # mem => last'.ret \notin Entries
           /\ last'.h >= IndirectPointerPage_Size => last'.ret = NULL ]_vars

=============================================================================
